---- MODULE Spec2Model ----
(***************************************************************************)
(* KREVOS restaurant system (src/app.py): the sqlite store (inventory,    *)
(* menu, recipes, sales, expenses) and the button handlers of the         *)
(* Streamlit script that read and write it.                               *)
(*                                                                         *)
(* REAL columns and Python floats are modelled as exact rationals <<n,d>> *)
(* in lowest terms with d > 0; the IEEE specials a numpy division can      *)
(* produce are <<1,0>> (inf), <<-1,0>> (-inf) and <<0,0>> (nan).  Binary   *)
(* rounding of the floating-point operations is not modelled.             *)
(***************************************************************************)
EXTENDS Integers, Sequences, FiniteSets, Bags, TLC

VARIABLES
    inventory,  \* table inventory: item -> [quantity, unit, total_cost, cost_per_unit]
    menu,       \* table menu: dish -> price
    recipes,    \* table recipes in rowid order: rows [rowid, dish, ingredient, amount, unit]
    sales,      \* table sales, a bag of rows [date, dish, qty, total]
    expenses,   \* table expenses, a bag of rows [date, category, amount, note]
    today,      \* index into Calendar of the day datetime.now() falls on
    pc,         \* position of the running script between two commits
    screen,     \* what the last script run displayed besides the tables
    calls,      \* SpecStock: the add-stock calls to make, in order
    idx         \* SpecStock: how many of them are made; SpecCommits: runs interrupted

vars == <<inventory, menu, recipes, sales, expenses, today, pc, screen, calls, idx>>

store == <<inventory, menu, recipes, sales, expenses>>

----------------------------------------------------------------------------
(* Bounds of the model *)

MaxRows == 4      \* rows in sales + expenses + recipes together
MaxCalls == 3     \* length of an add-stock sequence in SpecStock
MaxInterrupts == 1  \* script runs that end between two commits in SpecCommits

----------------------------------------------------------------------------
(* Program constants *)

PACKAGING_COST == 10
FIXED_STAFF_FOOD == 100
FIXED_MANAGER_SALARY == 450
ADMIN_PASSWORD == "87654321"

----------------------------------------------------------------------------
(* Floating-point values as rationals *)

Abs(n) == IF n < 0 THEN -n ELSE n

Sign(n) == IF n < 0 THEN -1 ELSE IF n > 0 THEN 1 ELSE 0

RECURSIVE GCD(_, _)
GCD(a, b) == IF b = 0 THEN a ELSE GCD(b, a % b)

Norm(n, d) ==
    IF d = 0 THEN <<Sign(n), 0>>
    ELSE LET g == GCD(Abs(n), Abs(d))
             s == IF d < 0 THEN -1 ELSE 1
         IN  <<(s * n) \div g, (s * d) \div g>>

R(n) == <<n, 1>>

Zero == R(0)
NaN == <<0, 0>>

IsFinite(x) == x[2] # 0

FNeg(x) == <<-x[1], x[2]>>

FAdd(x, y) ==
    IF IsFinite(x) /\ IsFinite(y)
    THEN LET g == GCD(x[2], y[2])
         IN  Norm(x[1] * (y[2] \div g) + y[1] * (x[2] \div g), (x[2] \div g) * y[2])
    ELSE IF x = NaN \/ y = NaN THEN NaN
    ELSE IF IsFinite(y) THEN x
    ELSE IF IsFinite(x) THEN y
    ELSE IF x = y THEN x ELSE NaN

FSub(x, y) == FAdd(x, FNeg(y))

FMul(x, y) == Norm(x[1] * y[1], x[2] * y[2])

\* numpy float64 division: x/0 is inf, -inf or nan, never an exception
FDiv(x, y) ==
    IF y[1] < 0 THEN Norm(-(x[1] * y[2]), -(x[2] * y[1]))
    ELSE Norm(x[1] * y[2], x[2] * y[1])

\* round(x, 2), ties to even
Round2(x) ==
    IF ~IsFinite(x) THEN x
    ELSE LET n == x[1] * 100
             fl == n \div x[2]
             rem == n - fl * x[2]
             up == \/ 2 * rem > x[2]
                   \/ (2 * rem = x[2] /\ fl % 2 = 1)
         IN  Norm(IF up THEN fl + 1 ELSE fl, 100)

----------------------------------------------------------------------------
(* Unit conversion *)

conversion(unit) ==
    CASE unit = "kg" -> 1000
      [] unit = "gm" -> 1
      [] unit = "litre" -> 1000
      [] unit = "ml" -> 1
      [] unit = "pieces" -> 1
      [] OTHER -> 1

to_base_unit(value, unit) == FMul(value, R(conversion(unit)))

base_unit_type(unit) ==
    IF unit \in {"kg", "gm"} THEN "gm"
    ELSE IF unit \in {"litre", "ml"} THEN "ml"
    ELSE "pieces"

----------------------------------------------------------------------------
(* The clock: datetime.now().strftime("%Y-%m-%d") on the days the model spans *)

Calendar == << [ym |-> "2026-11", dd |-> 1], [ym |-> "2026-11", dd |-> 2] >>

Today(t) == Calendar[t]

----------------------------------------------------------------------------
(* Inputs the operator can enter in the widgets *)

Items == {"Oil", "Chicken"}
DishNames == {"Burger", "Fries"}
OneDish == {"Burger"}
StockQtys == {R(0), R(50)}
StockUnits == {"kg"}
StockCosts == {R(100)}
SaleQtys == {1, 2}
RecipeInputs == {<<(<<1, 20>>), "kg">>}
Prices == {R(150)}
AdhocCategories == {"Rent", "Gas", "Water", "Utility", "Salary", "Others"}
AdhocInputs == {"Rent"}
AdhocAmounts == {R(50)}
AdhocNotes == {"Oil"}
Passwords == {"87654321", "guess"}

\* add-stock calls of SpecStock: one item, qty > 0
SeqQtys == {R(1), R(2)}
SeqUnits == {"kg", "gm"}
SeqCosts == {R(400), R(250)}
SeqItem == "Oil"

\* rows the tables account for (recipes: the highest rowid in use)
Rows ==
    BagCardinality(sales) + BagCardinality(expenses)
      + (IF recipes = <<>> THEN 0 ELSE recipes[Len(recipes)].rowid)

----------------------------------------------------------------------------
(* Tables as bags of rows *)

Insert(table, row) == table (+) SetToBag({row})

\* the rows of table that are in the set keep
Where(table, keep) == [r \in DOMAIN table \cap keep |-> table[r]]

Empty(table) == DOMAIN table = {}

\* df["total"].sum() and df["amount"].sum()
RECURSIVE SumTotal(_)
SumTotal(table) ==
    IF Empty(table) THEN Zero
    ELSE LET r == CHOOSE x \in DOMAIN table : TRUE
         IN  FAdd(FMul(R(table[r]), r.total),
                  SumTotal([x \in DOMAIN table \ {r} |-> table[x]]))

RECURSIVE SumAmount(_)
SumAmount(table) ==
    IF Empty(table) THEN Zero
    ELSE LET r == CHOOSE x \in DOMAIN table : TRUE
         IN  FAdd(FMul(R(table[r]), r.amount),
                  SumAmount([x \in DOMAIN table \ {r} |-> table[x]]))

----------------------------------------------------------------------------
(* FIXED DAILY COST *)

FixedRows(exp, date, category) ==
    Where(exp, {r \in DOMAIN exp : r.date = date /\ r.category = category})

\* add_fixed_costs without the lookups of existing records
add_fixed_costs_unchecked(exp, date, staff_food, manager_salary) ==
    LET e1 == IF staff_food
              THEN Insert(exp, [date |-> date, category |-> "Staff Food",
                                amount |-> R(FIXED_STAFF_FOOD), note |-> "Daily fixed"])
              ELSE exp
    IN  IF manager_salary
        THEN Insert(e1, [date |-> date, category |-> "Manager Salary",
                         amount |-> R(FIXED_MANAGER_SALARY), note |-> "Daily fixed"])
        ELSE e1

add_fixed_costs(exp, date, staff_food, manager_salary) ==
    LET e1 == IF staff_food /\ Empty(FixedRows(exp, date, "Staff Food"))
              THEN Insert(exp, [date |-> date, category |-> "Staff Food",
                                amount |-> R(FIXED_STAFF_FOOD), note |-> "Daily fixed"])
              ELSE exp
        e2 == IF manager_salary /\ Empty(FixedRows(e1, date, "Manager Salary"))
              THEN Insert(e1, [date |-> date, category |-> "Manager Salary",
                               amount |-> R(FIXED_MANAGER_SALARY), note |-> "Daily fixed"])
              ELSE e1
    IN  e2

----------------------------------------------------------------------------
(* INVENTORY *)

\* Raises if the division were numpy's for a new item too
NeverRaises(inv, item, qty) == FALSE

\* cost / qty on Python floats (new item): raises ZeroDivisionError when qty = 0
Raises(inv, item, qty) == item \notin DOMAIN inv /\ qty = Zero

\* update_inventory pricing an existing item at the last purchase alone
update_inventory_last_price(inv, item, qty, unit, cost) ==
    IF item \notin DOMAIN inv
    THEN [i \in DOMAIN inv \cup {item} |->
            IF i = item
            THEN [quantity |-> qty, unit |-> unit, total_cost |-> cost,
                  cost_per_unit |-> FDiv(cost, qty)]
            ELSE inv[i]]
    ELSE [inv EXCEPT ![item] = [quantity |-> FAdd(inv[item].quantity, qty),
                                unit |-> inv[item].unit,
                                total_cost |-> FAdd(inv[item].total_cost, cost),
                                cost_per_unit |-> FDiv(cost, qty)]]

\* update_inventory overwriting total_cost instead of adding to it
update_inventory_overwrite(inv, item, qty, unit, cost) ==
    IF item \notin DOMAIN inv
    THEN [i \in DOMAIN inv \cup {item} |->
            IF i = item
            THEN [quantity |-> qty, unit |-> unit, total_cost |-> cost,
                  cost_per_unit |-> FDiv(cost, qty)]
            ELSE inv[i]]
    ELSE [inv EXCEPT ![item] = [quantity |-> FAdd(inv[item].quantity, qty),
                                unit |-> inv[item].unit,
                                total_cost |-> cost,
                                cost_per_unit |-> FDiv(cost, FAdd(inv[item].quantity, qty))]]

update_inventory(inv, item, qty, unit, cost) ==
    IF item \notin DOMAIN inv
    THEN [i \in DOMAIN inv \cup {item} |->
            IF i = item
            THEN [quantity |-> qty, unit |-> unit, total_cost |-> cost,
                  cost_per_unit |-> FDiv(cost, qty)]
            ELSE inv[i]]
    ELSE LET new_qty == FAdd(inv[item].quantity, qty)
             new_cost == FAdd(inv[item].total_cost, cost)
             cpu == FDiv(new_cost, new_qty)
         IN  [inv EXCEPT ![item] = [quantity |-> new_qty, unit |-> inv[item].unit,
                                    total_cost |-> new_cost, cost_per_unit |-> cpu]]

----------------------------------------------------------------------------
(* AUTO INGREDIENT DEDUCTION *)

RecipeRows(rec, dish) == SelectSeq(rec, LAMBDA row : row.dish = dish)

\* DeductRow taking the amount of one dish whatever qty is
DeductRowOnce(inv, row, qty) ==
    IF row.ingredient \in DOMAIN inv
    THEN [inv EXCEPT ![row.ingredient].quantity = FSub(@, row.amount)]
    ELSE inv

DeductRow(inv, row, qty) ==
    LET used == FMul(row.amount, R(qty))
    IN  IF row.ingredient \in DOMAIN inv
        THEN [inv EXCEPT ![row.ingredient].quantity = FSub(@, used)]
        ELSE inv

RECURSIVE DeductRows(_, _, _)
DeductRows(inv, r, qty) ==
    IF r = <<>> THEN inv
    ELSE DeductRows(DeductRow(inv, Head(r), qty), Tail(r), qty)

deduct_ingredients(inv, rec, dish, qty) == DeductRows(inv, RecipeRows(rec, dish), qty)

----------------------------------------------------------------------------
(* COST CALCULATION *)

RECURSIVE CostRows(_, _, _, _)
CostRows(inv, r, total, details) ==
    IF r = <<>> THEN [total |-> total, details |-> details]
    ELSE LET row == Head(r)
         IN  IF row.ingredient \in DOMAIN inv
             THEN LET cost == FMul(inv[row.ingredient].cost_per_unit, row.amount)
                  IN  CostRows(inv, Tail(r), FAdd(total, cost),
                               Append(details, [Ingredient |-> row.ingredient,
                                                UsedAmount |-> row.amount,
                                                Cost |-> Round2(cost)]))
             ELSE CostRows(inv, Tail(r), total, details)

\* calculate_dish_cost without the packaging surcharge
calculate_dish_cost_unpackaged(inv, rec, dish) ==
    LET body == CostRows(inv, RecipeRows(rec, dish), Zero, <<>>)
    IN  [total |-> body.total, details |-> body.details]

calculate_dish_cost(inv, rec, dish) ==
    LET body == CostRows(inv, RecipeRows(rec, dish), Zero, <<>>)
    IN  [total |-> FAdd(body.total, R(PACKAGING_COST)), details |-> body.details]

----------------------------------------------------------------------------
(* DAILY REPORT *)

\* SalesOn matching the month as the monthly report does
SalesInMonth(sal, date) == Where(sal, {r \in DOMAIN sal : r.date.ym = date.ym})

SalesOn(sal, date) == Where(sal, {r \in DOMAIN sal : r.date = date})

ExpensesOn(exp, date) == Where(exp, {r \in DOMAIN exp : r.date = date})

NetProfit(sal, exp, date) ==
    LET s == SalesOn(sal, date)
        e == ExpensesOn(exp, date)
    IN  FSub(IF ~Empty(s) THEN SumTotal(s) ELSE Zero,
             IF ~Empty(e) THEN SumAmount(e) ELSE Zero)

----------------------------------------------------------------------------
(* RECIPE BUILDER *)

NextRowid(rec) == IF rec = <<>> THEN 1 ELSE rec[Len(rec)].rowid + 1

InsertRecipe(rec, dish, ing, amt, unit) ==
    Append(rec, [rowid |-> NextRowid(rec), dish |-> dish, ingredient |-> ing,
                 amount |-> to_base_unit(amt, unit), unit |-> base_unit_type(unit)])

----------------------------------------------------------------------------
(* Rows the handlers insert *)

SaleRow(date, dish, qty, price) ==
    [date |-> date, dish |-> dish, qty |-> qty, total |-> FMul(price, R(qty))]

\* BazarRow with category and note exchanged
BazarRowSwapped(date, cost, item) ==
    [date |-> date, category |-> item, amount |-> cost, note |-> "Bazar"]

BazarRow(date, cost, item) ==
    [date |-> date, category |-> "Bazar", amount |-> cost, note |-> item]

AdhocRow(date, category, amount, note) ==
    [date |-> date, category |-> category, amount |-> amount, note |-> note]

Idle == [at |-> "idle"]

Blank == [view |-> "none"]

----------------------------------------------------------------------------
(* Initial state: the tables as CREATE TABLE IF NOT EXISTS leaves a new database *)

Init ==
    /\ inventory = <<>>
    /\ menu = <<>>
    /\ recipes = <<>>
    /\ sales = EmptyBag
    /\ expenses = EmptyBag
    /\ today = 1
    /\ pc = Idle
    /\ screen = Blank
    /\ calls = <<>>
    /\ idx = 0

----------------------------------------------------------------------------
(* Button handlers, each run to completion *)

\* POS Billing / Generate Bill, up to the commit inside deduct_ingredients
BillDeduct(dish, qty) ==
    /\ dish \in DOMAIN menu
    /\ Rows < MaxRows
    /\ inventory' = deduct_ingredients(inventory, recipes, dish, qty)

\* POS Billing / Generate Bill, from there to the handler's own commit
BillRecord(dish, qty) ==
    /\ sales' = Insert(sales, SaleRow(Today(today), dish, qty, menu[dish]))
    /\ screen' = Blank

GenerateBill(dish, qty) ==
    /\ pc = Idle
    /\ BillDeduct(dish, qty)
    /\ BillRecord(dish, qty)
    /\ UNCHANGED <<menu, recipes, expenses, today, pc, calls, idx>>

\* Daily Report / Apply Fixed Costs for Today
ApplyFixedCosts(staff, manager) ==
    /\ pc = Idle
    /\ BagCardinality(add_fixed_costs(expenses, Today(today), staff, manager))
         - BagCardinality(expenses) <= MaxRows - Rows
    /\ expenses' = add_fixed_costs(expenses, Today(today), staff, manager)
    /\ screen' = Blank
    /\ UNCHANGED <<inventory, menu, recipes, sales, today, pc, calls, idx>>

\* Daily Report: the metric "Net Profit Today"
DailyReport ==
    /\ pc = Idle
    /\ screen' = [view |-> "report", date |-> Today(today),
                  net |-> NetProfit(sales, expenses, Today(today))]
    /\ UNCHANGED <<store, today, pc, calls, idx>>

\* Bazar Entry / Add Inventory, up to the commit inside update_inventory
StockUpdate(item, qty, unit, cost) ==
    /\ ~Raises(inventory, item, qty)
    /\ Rows < MaxRows
    /\ inventory' = update_inventory(inventory, item, qty, unit, cost)

\* Bazar Entry / Add Inventory, from there to the handler's own commit
StockRecord(item, cost) ==
    /\ expenses' = Insert(expenses, BazarRow(Today(today), cost, item))
    /\ screen' = Blank

\* Bazar Entry / Add Inventory when update_inventory raises: the run ends there
StockFails(item, qty) ==
    /\ Raises(inventory, item, qty)
    /\ screen' = [view |-> "ZeroDivisionError", item |-> item]
    /\ UNCHANGED <<inventory, expenses>>

AddInventory(item, qty, unit, cost) ==
    /\ pc = Idle
    /\ \/ StockFails(item, qty)
       \/ StockUpdate(item, qty, unit, cost) /\ StockRecord(item, cost)
    /\ UNCHANGED <<menu, recipes, sales, today, pc, calls, idx>>

\* Recipe Builder / Add Ingredient
AddIngredient(dish, ing, amt, unit) ==
    /\ pc = Idle
    /\ dish \in DOMAIN menu
    /\ ing \in DOMAIN inventory
    /\ Rows < MaxRows
    /\ recipes' = InsertRecipe(recipes, dish, ing, amt, unit)
    /\ screen' = Blank
    /\ UNCHANGED <<inventory, menu, sales, expenses, today, pc, calls, idx>>

\* Recipe Builder / Delete Recipe
DeleteRecipe(rid) ==
    /\ pc = Idle
    /\ recipes' = SelectSeq(recipes, LAMBDA row : row.rowid # rid)
    /\ screen' = Blank
    /\ UNCHANGED <<inventory, menu, sales, expenses, today, pc, calls, idx>>

\* Menu Cost Analysis
MenuCostAnalysis ==
    /\ pc = Idle
    /\ screen' = [view |-> "cost",
                  costs |-> [d \in DOMAIN menu |->
                               calculate_dish_cost(inventory, recipes, d)]]
    /\ UNCHANGED <<store, today, pc, calls, idx>>

\* Monthly Expense Manager / Add Expense
AddExpense(category, amount, note) ==
    /\ pc = Idle
    /\ Rows < MaxRows
    /\ expenses' = Insert(expenses, AdhocRow(Today(today), category, amount, note))
    /\ screen' = Blank
    /\ UNCHANGED <<inventory, menu, recipes, sales, today, pc, calls, idx>>

\* Admin Panel / Save Menu
SaveMenu(pwd, d, p) ==
    /\ pc = Idle
    /\ pwd = ADMIN_PASSWORD
    /\ menu' = [x \in DOMAIN menu \cup {d} |-> IF x = d THEN p ELSE menu[x]]
    /\ screen' = Blank
    /\ UNCHANGED <<inventory, recipes, sales, expenses, today, pc, calls, idx>>

\* Admin Panel / Delete Inventory Item
DeleteInventoryItem(pwd, del_item) ==
    /\ pc = Idle
    /\ pwd = ADMIN_PASSWORD
    /\ inventory' = [i \in DOMAIN inventory \ {del_item} |-> inventory[i]]
    /\ screen' = Blank
    /\ UNCHANGED <<menu, recipes, sales, expenses, today, pc, calls, idx>>

\* Admin Panel / Delete Menu Item
DeleteMenuItem(pwd, del_menu) ==
    /\ pc = Idle
    /\ pwd = ADMIN_PASSWORD
    /\ menu' = [x \in DOMAIN menu \ {del_menu} |-> menu[x]]
    /\ screen' = Blank
    /\ UNCHANGED <<inventory, recipes, sales, expenses, today, pc, calls, idx>>

\* midnight passes
AdvanceDay ==
    /\ pc = Idle
    /\ today < Len(Calendar)
    /\ today' = today + 1
    /\ UNCHANGED <<store, pc, screen, calls, idx>>

RowidInputs == {0} \cup {recipes[i].rowid : i \in 1..Len(recipes)}

\* stock, menu, recipes and sales, for the dish names D
Cooking(D) ==
    \/ \E dish \in D, qty \in SaleQtys : GenerateBill(dish, qty)
    \/ \E item \in Items, qty \in StockQtys, unit \in StockUnits, cost \in StockCosts :
          AddInventory(item, qty, unit, cost)
    \/ \E dish \in D, ing \in Items, inp \in RecipeInputs :
          AddIngredient(dish, ing, inp[1], inp[2])
    \/ \E rid \in RowidInputs : DeleteRecipe(rid)
    \/ MenuCostAnalysis
    \/ \E pwd \in Passwords, d \in D, p \in Prices : SaveMenu(pwd, d, p)
    \/ \E pwd \in Passwords, d \in D : DeleteMenuItem(pwd, d)

\* expenses, the daily report and the passing of days
Bookkeeping ==
    \/ \E staff \in BOOLEAN, manager \in BOOLEAN : ApplyFixedCosts(staff, manager)
    \/ DailyReport
    \/ \E category \in AdhocInputs, amount \in AdhocAmounts, note \in AdhocNotes :
          AddExpense(category, amount, note)
    \/ AdvanceDay

RemoveStock == \E pwd \in Passwords, item \in Items : DeleteInventoryItem(pwd, item)

\* every operator action, one dish on the menu
Next ==
    \/ Cooking(OneDish)
    \/ Bookkeeping
    \/ RemoveStock

Spec == Init /\ [][Next]_vars

\* the same when the admin never deletes an inventory item
NextLedger ==
    \/ Cooking(OneDish)
    \/ Bookkeeping

SpecLedger == Init /\ [][NextLedger]_vars

\* stock, recipes and sales of two dishes on one day
NextKitchen ==
    \/ Cooking(DishNames)
    \/ RemoveStock

SpecKitchen == Init /\ [][NextKitchen]_vars

----------------------------------------------------------------------------
(* The two handlers that commit twice, step by step, with the script run    *)
(* ending between the commits (process killed, connection lost)             *)

BillDeductStep(dish, qty) ==
    /\ pc = Idle
    /\ BillDeduct(dish, qty)
    /\ pc' = [at |-> "bill_deducted", dish |-> dish, qty |-> qty]
    /\ UNCHANGED <<menu, recipes, sales, expenses, today, screen, calls, idx>>

BillRecordStep ==
    /\ pc.at = "bill_deducted"
    /\ BillRecord(pc.dish, pc.qty)
    /\ pc' = Idle
    /\ UNCHANGED <<inventory, menu, recipes, expenses, today, calls, idx>>

StockUpdateStep(item, qty, unit, cost) ==
    /\ pc = Idle
    /\ StockUpdate(item, qty, unit, cost)
    /\ pc' = [at |-> "stock_updated", item |-> item, cost |-> cost]
    /\ UNCHANGED <<menu, recipes, sales, expenses, today, screen, calls, idx>>

StockRecordStep ==
    /\ pc.at = "stock_updated"
    /\ StockRecord(pc.item, pc.cost)
    /\ pc' = Idle
    /\ UNCHANGED <<inventory, menu, recipes, sales, today, calls, idx>>

Interrupt ==
    /\ pc # Idle
    /\ idx < MaxInterrupts
    /\ idx' = idx + 1
    /\ pc' = Idle
    /\ screen' = Blank
    /\ UNCHANGED <<store, today, calls>>

NextCommits ==
    \/ \E dish \in DishNames, qty \in SaleQtys : BillDeductStep(dish, qty)
    \/ BillRecordStep
    \/ \E item \in Items, qty \in StockQtys, unit \in StockUnits, cost \in StockCosts :
          StockUpdateStep(item, qty, unit, cost)
    \/ StockRecordStep
    \/ Interrupt
    \/ \E dish \in DishNames, ing \in Items, inp \in RecipeInputs :
          AddIngredient(dish, ing, inp[1], inp[2])
    \/ \E pwd \in Passwords, d \in DishNames, p \in Prices : SaveMenu(pwd, d, p)

SpecCommits == Init /\ [][NextCommits]_vars

----------------------------------------------------------------------------
(* A sequence of add-stock calls on an item the inventory does not hold *)

StockCalls == [qty : SeqQtys, unit : SeqUnits, cost : SeqCosts]

CallSeqs == UNION {[1..n -> StockCalls] : n \in 1..MaxCalls}

InitStock ==
    /\ inventory = <<>>
    /\ menu = <<>>
    /\ recipes = <<>>
    /\ sales = EmptyBag
    /\ expenses = EmptyBag
    /\ today = 1
    /\ pc = Idle
    /\ screen = Blank
    /\ calls \in CallSeqs
    /\ idx = 0

StockCall ==
    /\ idx < Len(calls)
    /\ inventory' = update_inventory(inventory, SeqItem, calls[idx + 1].qty,
                                     calls[idx + 1].unit, calls[idx + 1].cost)
    /\ StockRecord(SeqItem, calls[idx + 1].cost)
    /\ idx' = idx + 1
    /\ UNCHANGED <<menu, recipes, sales, today, pc, calls>>

SpecStock == InitStock /\ [][StockCall]_vars

----------------------------------------------------------------------------
(* Properties *)

\* rows a step has added to a table
NewRows(table, after) == {r \in DOMAIN after : CopiesIn(r, after) > CopiesIn(r, table)}

\* the sum of a function's values
RECURSIVE SumOf(_)
SumOf(f) ==
    IF DOMAIN f = {} THEN Zero
    ELSE LET x == CHOOSE y \in DOMAIN f : TRUE
         IN  FAdd(f[x], SumOf([y \in DOMAIN f \ {x} |-> f[y]]))

\* C1 as stated: in every reachable state every inventory item with non-zero
\* quantity has cost_per_unit = total_cost / quantity, also right after a sale.
C1_CostPerUnitAlways ==
    \A i \in DOMAIN inventory :
        inventory[i].quantity # Zero
          => inventory[i].cost_per_unit
               = FDiv(inventory[i].total_cost, inventory[i].quantity)

\* C1 amended: right after every successful add-stock the stocked item, if its
\* quantity is non-zero, has cost_per_unit = total_cost / quantity.
C1_CostPerUnitAfterStock ==
    [][\A r \in NewRows(expenses, expenses') :
          r.category = "Bazar"
            => /\ r.note \in DOMAIN inventory'
               /\ inventory'[r.note].quantity # Zero
                    => inventory'[r.note].cost_per_unit
                         = FDiv(inventory'[r.note].total_cost, inventory'[r.note].quantity)]_vars

\* C1 witness: Oil restocked after a sale had used it up
C1_RestockedAfterSale ==
    /\ sales # EmptyBag
    /\ "Oil" \in DOMAIN inventory
    /\ inventory["Oil"].quantity = R(50)
    /\ inventory["Oil"].total_cost = R(200)
    /\ inventory["Oil"].cost_per_unit = R(4)

\* what the recipe entries of dish that name item use for qty dishes
C2_Used(rec, dish, qty, item) ==
    SumOf([k \in {j \in 1..Len(rec) : rec[j].dish = dish /\ rec[j].ingredient = item}
             |-> FMul(rec[k].amount, R(qty))])

\* C2: a sale of dish D with quantity q lowers the quantity of each ingredient by
\* (stored amount x q) for every recipe entry of D naming it and leaves every other
\* quantity and every unit, total_cost and cost_per_unit as they were.
C2_SaleDeductsRecipe ==
    [][\A r \in NewRows(sales, sales') :
          /\ DOMAIN inventory' = DOMAIN inventory
          /\ \A i \in DOMAIN inventory :
                /\ inventory'[i].quantity
                     = FSub(inventory[i].quantity, C2_Used(recipes, r.dish, r.qty, i))
                /\ inventory'[i].unit = inventory[i].unit
                /\ inventory'[i].total_cost = inventory[i].total_cost
                /\ inventory'[i].cost_per_unit = inventory[i].cost_per_unit]_vars

\* C2 witness: two Burgers sold, Oil is in the recipe and Chicken is not
C2_SoldWithUnrelatedItem ==
    /\ \E r \in DOMAIN sales : r.dish = "Burger" /\ r.qty = 2
    /\ \E k \in 1..Len(recipes) : recipes[k].dish = "Burger" /\ recipes[k].ingredient = "Oil"
    /\ \A k \in 1..Len(recipes) : recipes[k].ingredient # "Chicken"
    /\ DOMAIN inventory = {"Oil", "Chicken"}
    /\ inventory["Oil"].quantity = R(-50)
    /\ inventory["Chicken"].quantity = R(50)

\* the amount a recipe row holds, in the unit the ingredient is stocked in
C3_InStockUnit(row, unit) == FDiv(row.amount, R(conversion(unit)))

\* C3: an ingredient stocked in kg or litre, with recipe amounts entered in that
\* unit, loses (entered amount x q) of its stored unit when q dishes are sold.
C3_SaleDeductsInStockUnit ==
    [][\A r \in NewRows(sales, sales') :
          \A i \in DOMAIN inventory :
             (/\ inventory[i].unit \in {"kg", "litre"}
              /\ \A k \in 1..Len(recipes) :
                    recipes[k].ingredient = i
                      => recipes[k].unit = base_unit_type(inventory[i].unit))
               => inventory'[i].quantity
                    = FSub(inventory[i].quantity,
                           SumOf([k \in {j \in 1..Len(recipes) :
                                           /\ recipes[j].dish = r.dish
                                           /\ recipes[j].ingredient = i}
                                    |-> FMul(C3_InStockUnit(recipes[k], inventory[i].unit),
                                             R(r.qty))]))]_vars

\* the calls made so far, and their sums
C4_Made == SubSeq(calls, 1, idx)

C4_SumQty(cs) == SumOf([k \in 1..Len(cs) |-> cs[k].qty])

C4_SumCost(cs) == SumOf([k \in 1..Len(cs) |-> cs[k].cost])

RECURSIVE C4_Apply(_, _)
C4_Apply(inv, cs) ==
    IF cs = <<>> THEN inv
    ELSE C4_Apply(update_inventory(inv, SeqItem, Head(cs).qty, Head(cs).unit, Head(cs).cost),
                  Tail(cs))

C4_Orders(n) == {p \in [1..n -> 1..n] : \A a, b \in 1..n : p[a] = p[b] => a = b}

\* C4: after any sequence of add-stock calls (qty > 0) on a new item the quantity
\* is the sum of the qty arguments, total_cost the sum of the costs, cost_per_unit
\* their quotient, and every order of the calls gives the same record but the unit.
C4_WeightedAverage ==
    idx > 0 =>
        /\ SeqItem \in DOMAIN inventory
        /\ inventory[SeqItem].quantity = C4_SumQty(C4_Made)
        /\ inventory[SeqItem].total_cost = C4_SumCost(C4_Made)
        /\ inventory[SeqItem].cost_per_unit = FDiv(C4_SumCost(C4_Made), C4_SumQty(C4_Made))
        /\ inventory[SeqItem].unit = calls[1].unit
        /\ \A p \in C4_Orders(idx) :
              LET other == C4_Apply(<<>>, [k \in 1..idx |-> calls[p[k]]])[SeqItem]
              IN  /\ other.quantity = inventory[SeqItem].quantity
                  /\ other.total_cost = inventory[SeqItem].total_cost
                  /\ other.cost_per_unit = inventory[SeqItem].cost_per_unit
                  /\ other.unit = calls[p[1]].unit

\* C4 witness: the spec's example, 2 kg for 400 and then 1 kg for 250
C4_OilExample ==
    /\ idx = 2
    /\ calls[1] = [qty |-> R(2), unit |-> "kg", cost |-> R(400)]
    /\ calls[2] = [qty |-> R(1), unit |-> "kg", cost |-> R(250)]
    /\ inventory[SeqItem] = [quantity |-> R(3), unit |-> "kg", total_cost |-> R(650),
                             cost_per_unit |-> <<650, 3>>]

C5_Count(date, category) ==
    SumOf([r \in {x \in DOMAIN expenses : x.date = date /\ x.category = category}
             |-> R(expenses[r])])

C5_Days == {Calendar[t] : t \in 1..Len(Calendar)}

\* C5: every date holds at most one 'Staff Food' and at most one 'Manager Salary'
\* expense, and applying the fixed costs again on the same day with the same flags
\* leaves the expenses table as the first application left it.
C5_FixedCostsOncePerDay ==
    /\ \A d \in C5_Days, category \in {"Staff Food", "Manager Salary"} :
          C5_Count(d, category) \in {R(0), R(1)}
    /\ \A staff \in BOOLEAN, manager \in BOOLEAN :
          LET once == add_fixed_costs(expenses, Today(today), staff, manager)
          IN  add_fixed_costs(once, Today(today), staff, manager) = once

\* C5 witness: fixed costs applied on both days, and an ad-hoc expense beside them
C5_FixedOnBothDays ==
    /\ today = 2
    /\ C5_Count(Calendar[1], "Staff Food") = R(1)
    /\ C5_Count(Calendar[2], "Staff Food") = R(1)
    /\ C5_Count(Calendar[2], "Manager Salary") = R(1)
    /\ \E r \in DOMAIN expenses : r.category \in AdhocCategories

C7_Priced(dish) ==
    {k \in 1..Len(recipes) : recipes[k].dish = dish /\ recipes[k].ingredient \in DOMAIN inventory}

C7_Total(dish) ==
    FAdd(R(PACKAGING_COST),
         SumOf([k \in C7_Priced(dish) |->
                  FMul(inventory[recipes[k].ingredient].cost_per_unit, recipes[k].amount)]))

C7_CostShown ==
    screen.view = "cost" =>
        \A d \in DOMAIN screen.costs :
            /\ screen.costs[d].total = C7_Total(d)
            /\ Len(screen.costs[d].details) = Cardinality(C7_Priced(d))
            /\ \A n \in 1..Len(screen.costs[d].details) :
                  screen.costs[d].details[n].Ingredient \in DOMAIN inventory
            /\ (\A k \in 1..Len(recipes) : recipes[k].dish # d)
                 => /\ screen.costs[d].total = R(PACKAGING_COST)
                    /\ screen.costs[d].details = <<>>

C8_ZeroQuantityRejected ==
    [][/\ \A i \in DOMAIN inventory' \ DOMAIN inventory : inventory'[i].quantity # Zero
       /\ screen'.view = "ZeroDivisionError"
            => /\ store' = store
               /\ screen'.item \notin DOMAIN inventory']_vars

\* C8 witness: the error shown for Oil, which has neither a record nor a Bazar expense
C8_ZeroQuantityFailed ==
    /\ screen.view = "ZeroDivisionError"
    /\ screen.item = "Oil"
    /\ "Oil" \notin DOMAIN inventory
    /\ "Chicken" \in DOMAIN inventory
    /\ \A r \in DOMAIN expenses : r.category = "Bazar" => r.note # "Oil"

C9_Income(date) ==
    SumOf([r \in DOMAIN sales |-> IF r.date = date THEN FMul(R(sales[r]), r.total) ELSE Zero])

C9_Spent(date) ==
    SumOf([r \in DOMAIN expenses |->
             IF r.date = date THEN FMul(R(expenses[r]), r.amount) ELSE Zero])

\* C9: the daily report's net profit is the sum of total over the sales of exactly
\* that date minus the sum of amount over the expenses of exactly that date, and 0
\* when the date has neither.
C9_NetProfitOfTheDay ==
    screen.view = "report" =>
        /\ screen.net = FSub(C9_Income(screen.date), C9_Spent(screen.date))
        /\ (\A r \in DOMAIN sales \cup DOMAIN expenses : r.date # screen.date)
             => screen.net = Zero

\* C9 witness: the report of day 2 with a sale and an expense of that day and a
\* sale of day 1
C9_ReportWithOtherDay ==
    /\ screen.view = "report"
    /\ screen.date = Calendar[2]
    /\ \E r \in DOMAIN sales : r.date = Calendar[1]
    /\ \E r \in DOMAIN sales : r.date = Calendar[2] /\ r.qty = 2
    /\ \E r \in DOMAIN expenses : r.date = Calendar[2] /\ r.category = "Staff Food"
    /\ screen.net = R(200)

C10_Bazar(item) ==
    SumOf([r \in {x \in DOMAIN expenses : x.category = "Bazar" /\ x.note = item}
             |-> FMul(R(expenses[r]), r.amount)])

\* C10: while no inventory item has been deleted, every inventory item's total_cost
\* is the sum of the amounts of the 'Bazar' expenses whose note is its name.
C10_TotalCostIsBazarSum ==
    \A i \in DOMAIN inventory : inventory[i].total_cost = C10_Bazar(i)

\* C10 witness: Oil stocked twice, a dish sold, and an ad-hoc expense noted "Oil"
C10_StockedTwice ==
    /\ "Oil" \in DOMAIN inventory
    /\ inventory["Oil"].total_cost = R(200)
    /\ sales # EmptyBag
    /\ \E r \in DOMAIN expenses : r.category \in AdhocCategories /\ r.note = "Oil"

====
